---- MODULE Spec2Model ----
(***************************************************************************)
(* A model of lloggs (src/src/lib.rs): the logging front-end that turns    *)
(* environment variables (PreArgs) and clap flags (LoggingArgs) into one   *)
(* process-wide tracing subscriber and the WorkerGuard of its non-blocking *)
(* writer.                                                                 *)
(*                                                                         *)
(* Modelling conventions.                                                  *)
(*  - Option<T> is a sequence: None is <<>>, Some(x) is <<x>>.             *)
(*  - std::env::var(name) is environ[name]; "set" means var() is Ok.       *)
(*  - A path is the sequence of its std::path components: "/" is RootDir,  *)
(*    "." CurDir (kept by components() only in first place), ".."          *)
(*    ParentDir, anything else a Normal component. <<>> is the empty path. *)
(*  - The global default subscriber is the variable subscriber; the        *)
(*    workers of tracing_appender::non_blocking are guard ids in workers.  *)
(***************************************************************************)
EXTENDS Integers, Sequences, FiniteSets, TLC

None == <<>>
Some(x) == <<x>>

\* Bounds of the model.
MaxVerbose == 1
MaxPathLen == 2
MaxCalls == 2
MaxChain == 3

VARIABLES
    environ,     \* the process environment: variable name -> value or None
    stderr_tty,  \* std::io::stderr().is_terminal()
    ansi_ok,     \* whether enable_ansi_support() succeeds on this platform
    ansi_calls,  \* how many times enable_ansi_support() has been attempted
    pc,          \* the host program's position
    pre,         \* the host's PreArgs value, None before parse
    args,        \* the host's LoggingArgs value, None before Args::parse()
    subscriber,  \* the global default subscriber, None while not installed
    installs,    \* how many global installations have succeeded
    workers,     \* ids of the live non-blocking workers (live WorkerGuards)
    spawned,     \* how many workers were ever spawned
    held,        \* the guards the host owns (main's _guard)
    calls,       \* how many setup calls the host has made
    ret,         \* what the last library call was given, computed and returned
    chain        \* a ColourMode value's history under successive or_if_auto calls

vars == <<environ, stderr_tty, ansi_ok, ansi_calls, pc, pre, args, subscriber,
          installs, workers, spawned, held, calls, ret, chain>>

----------------------------------------------------------------------------
\* Value sets.

ColourMode == {"Auto", "Always", "Never"}

SignalVars == {"DEBUG_INVOCATION", "JOURNAL_STREAM", "LOG_TIMELESS",
               "NO_COLOR", "CLICOLOR_FORCE"}
FilterVars == {"RUST_LOG", "APP_LOG"}
EnvVars == SignalVars \cup FilterVars

Environments ==
    { e \in [EnvVars -> {None, Some("1"), Some("info")}] :
        /\ \A v \in SignalVars : e[v] \in {None, Some("1")}
        /\ \A v \in FilterVars : e[v] \in {None, Some("info")} }

FirstComponents == {"/", ".", "a"}
NextComponents == {"..", "b.log"}

RECURSIVE PathsOfLen(_)
PathsOfLen(n) ==
    IF n = 0 THEN {<<>>}
    ELSE IF n = 1 THEN {<<c>> : c \in FirstComponents}
    ELSE {Append(p, c) : p \in PathsOfLen(n - 1), c \in NextComponents}

Paths == UNION {PathsOfLen(n) : n \in 0..MaxPathLen}

ExeStems == {None, Some("myprog")}
Instants == {"2026-11-04T10-00-00Z"}

----------------------------------------------------------------------------
\* Helpers (lib.rs 481-487) and std calls.

var(name) == environ[name]

is_ok(v) == v # None

is_terminal == stderr_tty

\* Variant of is_systemd that takes JOURNAL_STREAM alone as the sign.
is_systemd_any_stream ==
    is_ok(var("JOURNAL_STREAM")) \/ is_ok(var("DEBUG_INVOCATION"))

is_systemd ==
    (is_ok(var("JOURNAL_STREAM")) /\ ~is_terminal) \/ is_ok(var("DEBUG_INVOCATION"))

\* Path::parent(): None when the path is empty or ends in a root.
parent(p) ==
    IF Len(p) = 0 THEN None
    ELSE IF p[Len(p)] = "/" THEN None
    ELSE Some(SubSeq(p, 1, Len(p) - 1))

\* Path::file_name(): the last component when it is a Normal one.
file_name(p) ==
    IF Len(p) = 0 THEN None
    ELSE IF p[Len(p)] \in {"/", ".", ".."} THEN None
    ELSE Some(<<p[Len(p)]>>)

----------------------------------------------------------------------------
\* ColourMode (lib.rs 413-479).

\* Variants of or_if_auto: the argument wins unless it is Auto; the
\* argument always wins.
or_if_auto_value_first(self, value) ==
    IF value = "Auto" THEN self ELSE value

or_if_auto_overriding(self, value) == value

or_if_auto(self, value) ==
    IF self = "Auto" THEN value ELSE self

enabled(self) ==
    CASE self = "Auto" -> is_terminal
      [] self = "Always" -> TRUE
      [] self = "Never" -> FALSE

\* Variant of from_env that looks at CLICOLOR_FORCE before NO_COLOR.
from_env_force_first ==
    IF is_ok(var("CLICOLOR_FORCE")) THEN [mode |-> "Always", ansi |-> 0]
    ELSE IF is_ok(var("NO_COLOR")) THEN [mode |-> "Never", ansi |-> 0]
    ELSE IF ~ansi_ok THEN [mode |-> "Never", ansi |-> 1]
    ELSE [mode |-> "Auto", ansi |-> 1]

\* from_env: the mode, and how many enable_ansi_support() attempts it made.
from_env ==
    IF is_ok(var("NO_COLOR")) THEN [mode |-> "Never", ansi |-> 0]
    ELSE IF is_ok(var("CLICOLOR_FORCE")) THEN [mode |-> "Always", ansi |-> 0]
    ELSE IF ~ansi_ok THEN [mode |-> "Never", ansi |-> 1]
    ELSE [mode |-> "Auto", ansi |-> 1]

----------------------------------------------------------------------------
\* The collaborators: the writers and the one-shot global installation.

Stderr == [kind |-> "stderr", dir |-> <<>>, filename |-> <<>>]

RollingNever(dir, filename) == [kind |-> "file", dir |-> dir, filename |-> filename]

\* Variant of try_init that replaces an installed subscriber.
try_init_replacing(built, sub) == [ok |-> TRUE, sub |-> Some(built)]

\* try_init(): set_global_default succeeds only while no subscriber is set.
try_init(built, sub) ==
    IF sub = None THEN [ok |-> TRUE, sub |-> Some(built)]
    ELSE [ok |-> FALSE, sub |-> sub]

\* The closure the crate's example passes as level_map.
level_map(v) ==
    IF v = 0 THEN "info" ELSE IF v = 1 THEN "debug" ELSE "trace"

\* What a setup call did: how it ended (kind Ok, Err or panic), the value or
\* error it returned, the destination it resolved, the locals it computed,
\* the subscriber it built, the global subscriber it leaves (sub), whether it
\* installed one, how many workers it spawned, which of them outlive the
\* call (alive), and how many ANSI enablement attempts it made.
Outcome(kind, val, err, dest, locals, built, sub, installed, spawn, alive, ansi) ==
    [kind |-> kind, val |-> val, err |-> err, dest |-> dest, locals |-> locals,
     built |-> built, sub |-> sub, installed |-> installed, spawned |-> spawn,
     alive |-> alive, ansi |-> ansi]

----------------------------------------------------------------------------
\* PreArgs (lib.rs 301-397).

\* Variant of parse_with_env in which DEBUG_INVOCATION wins over the named
\* variable.
parse_with_env_debug_first(var_name) ==
    LET logline == IF is_ok(var("DEBUG_INVOCATION")) THEN Some("debug")
                   ELSE var(var_name)
        timeless == is_systemd \/ is_ok(var("LOG_TIMELESS"))
        color == from_env
    IN  [self |-> [logline |-> logline, timeless |-> timeless, color |-> color.mode],
         ansi |-> color.ansi]

parse_with_env(var_name) ==
    LET logline == IF is_ok(var(var_name)) THEN var(var_name)
                   ELSE IF is_ok(var("DEBUG_INVOCATION")) THEN Some("debug")
                   ELSE None
        timeless == is_systemd \/ is_ok(var("LOG_TIMELESS"))
        color == from_env
    IN  [self |-> [logline |-> logline, timeless |-> timeless, color |-> color.mode],
         ansi |-> color.ansi]

\* Variants of PreArgs::setup: one installs but hands back no guard; one
\* leaves the worker of a failed installation running.
PreArgs_setup_unguarded(self, sub, g) ==
    IF self.logline = None
    THEN Outcome("Ok", None, None, None, None, None, sub, FALSE, 0, {}, 0)
    ELSE LET built == [writer |-> Stderr,
                       ansi |-> enabled(self.color),
                       filter |-> self.logline[1],
                       span_events |-> FALSE,
                       format |-> IF self.timeless THEN "without_time" ELSE "full"]
             r == try_init(built, sub)
         IN  Outcome("Ok", None, None, Some(Stderr), None, Some(built), r.sub, r.ok, 1,
                     {}, 0)

PreArgs_setup_leaky(self, sub, g) ==
    IF self.logline = None
    THEN Outcome("Ok", None, None, None, None, None, sub, FALSE, 0, {}, 0)
    ELSE LET built == [writer |-> Stderr,
                       ansi |-> enabled(self.color),
                       filter |-> self.logline[1],
                       span_events |-> FALSE,
                       format |-> IF self.timeless THEN "without_time" ELSE "full"]
             r == try_init(built, sub)
         IN  IF r.ok
             THEN Outcome("Ok", Some(g), None, Some(Stderr), None, Some(built), r.sub,
                          TRUE, 1, {g}, 0)
             ELSE Outcome("Err", None, Some("InitializationError"), Some(Stderr), None,
                          Some(built), r.sub, FALSE, 1, {g}, 0)

\* PreArgs::setup(&self), called while the global subscriber is sub; g is the
\* id of the worker non_blocking() would spawn.
PreArgs_setup(self, sub, g) ==
    IF self.logline = None
    THEN Outcome("Ok", None, None, None, None, None, sub, FALSE, 0, {}, 0)
    ELSE LET built == [writer |-> Stderr,
                       ansi |-> enabled(self.color),
                       filter |-> self.logline[1],
                       span_events |-> FALSE,
                       format |-> IF self.timeless THEN "without_time" ELSE "full"]
             r == try_init(built, sub)
         IN  IF r.ok
             THEN Outcome("Ok", Some(g), None, Some(Stderr), None, Some(built), r.sub,
                          TRUE, 1, {g}, 0)
             ELSE Outcome("Err", None, Some("InitializationError"), Some(Stderr), None,
                          Some(built), r.sub, FALSE, 1, {}, 0)

----------------------------------------------------------------------------
\* LoggingArgs (lib.rs 177-270).

LoggingArgsValues ==
    [color : ColourMode,
     verbose : 0..MaxVerbose,
     log_file : {None} \cup {Some(p) : p \in Paths},
     log_timeless : BOOLEAN]

\* What LoggingArgs::setup reads from the file system, the process and the
\* clock: metadata(file).is_ok_and(is_dir), the stem of current_exe(), the
\* UTC time, and whether rolling::never can create the file (it panics when
\* it cannot). The empty path names nothing, so it is never a directory.
SetupInputs(self) ==
    IF self.log_file = None
    THEN {[is_dir |-> FALSE, exe_stem |-> None, now |-> "", can_create |-> TRUE]}
    ELSE {io \in [is_dir : BOOLEAN, exe_stem : ExeStems, now : Instants,
                  can_create : BOOLEAN] :
            /\ (self.log_file[1] = <<>> => ~io.is_dir)
            /\ (~io.is_dir => io.exe_stem = None)}

\* OffsetDateTime::format with the description of lines 227-229: every
\* component it names is one an OffsetDateTime has, so the result is Ok.
format_time(now) == Some(now)

\* Variant of the destination resolution that tries the parent/file-name
\* split before the directory check.
resolve_destination_split_first(file, io) ==
    IF is_ok(parent(file)) /\ is_ok(file_name(file))
    THEN [ok |-> TRUE, dir |-> parent(file)[1], filename |-> file_name(file)[1]]
    ELSE IF io.is_dir
    THEN LET progname == IF is_ok(io.exe_stem) THEN io.exe_stem[1] ELSE "lloggs"
         IN  [ok |-> TRUE, dir |-> file, filename |-> <<progname, ".", io.now, ".log">>]
    ELSE [ok |-> FALSE, dir |-> <<>>, filename |-> <<>>]

\* Lines 215-239: Ok(dir, filename), or the error of line 238.
resolve_destination(file, io) ==
    IF io.is_dir
    THEN LET progname == IF is_ok(io.exe_stem) THEN io.exe_stem[1] ELSE "lloggs"
             formatted == format_time(io.now)
             time == IF is_ok(formatted) THEN formatted[1] ELSE "debug"
         IN  [ok |-> TRUE, dir |-> file, filename |-> <<progname, ".", time, ".log">>]
    ELSE IF is_ok(parent(file)) /\ is_ok(file_name(file))
    THEN [ok |-> TRUE, dir |-> parent(file)[1], filename |-> file_name(file)[1]]
    ELSE [ok |-> FALSE, dir |-> <<>>, filename |-> <<>>]

\* Variant of the formatter choice that looks at timeless before the file.
select_format_timeless_first(self, timeless) ==
    IF timeless THEN "without_time"
    ELSE IF is_ok(self.log_file) THEN "json"
    ELSE "full"

\* Lines 260-266: which formatter init() is called on.
select_format(self, timeless) ==
    IF is_ok(self.log_file) THEN "json"
    ELSE IF timeless THEN "without_time"
    ELSE "full"

\* LoggingArgs::setup(&self, level_map), called while the global subscriber
\* is sub; g is the id of the worker non_blocking() would spawn.
LoggingArgs_setup(self, sub, g, io) ==
    LET dest == IF is_ok(self.log_file)
                THEN resolve_destination(self.log_file[1], io)
                ELSE [ok |-> TRUE, dir |-> <<>>, filename |-> <<>>]
        log_writer == IF is_ok(self.log_file)
                      THEN RollingNever(dest.dir, dest.filename)
                      ELSE Stderr
        env_color == from_env
        color == or_if_auto(env_color.mode, self.color)
        timeless == is_systemd \/ self.log_timeless
        locals == [color |-> color, timeless |-> timeless]
        built == [writer |-> log_writer,
                  ansi |-> enabled(color),
                  filter |-> level_map(self.verbose),
                  span_events |-> (self.verbose > 0),
                  format |-> select_format(self, timeless)]
        r == try_init(built, sub)
    IN  IF ~dest.ok
        THEN Outcome("Err", None, Some("Failed to determine log file name"), None, None,
                     None, sub, FALSE, 0, {}, 0)
        ELSE IF is_ok(self.log_file) /\ ~io.can_create
        THEN Outcome("panic", None, None, Some(log_writer), None, None, sub, FALSE, 0,
                     {}, 0)
        ELSE IF r.ok
        THEN Outcome("Ok", Some(g), None, Some(log_writer), Some(locals), Some(built),
                     r.sub, TRUE, 1, {g}, env_color.ansi)
        ELSE Outcome("panic", None, None, Some(log_writer), Some(locals), Some(built),
                     r.sub, FALSE, 1, {}, env_color.ansi)

----------------------------------------------------------------------------
\* The state after process start, and the effect of a library call on it.

BlankReturn ==
    [fn |-> "", arg |-> None, io |-> None, kind |-> "", val |-> None, err |-> None,
     dest |-> None, locals |-> None, built |-> None, spawned |-> 0]

Start(at) ==
    /\ environ \in Environments
    /\ stderr_tty \in BOOLEAN
    /\ ansi_ok \in BOOLEAN
    /\ ansi_calls = 0
    /\ pc = at
    /\ pre = None
    /\ args = None
    /\ subscriber = None
    /\ installs = 0
    /\ workers = {}
    /\ spawned = 0
    /\ held = {}
    /\ calls = 0
    /\ ret = BlankReturn
    /\ chain = <<>>

\* A setup call with outcome out takes effect on the process.
Effect(fn, arg, io, out) ==
    /\ subscriber' = out.sub
    /\ installs' = installs + (IF out.installed THEN 1 ELSE 0)
    /\ workers' = workers \cup out.alive
    /\ spawned' = spawned + out.spawned
    /\ ansi_calls' = ansi_calls + out.ansi
    /\ calls' = calls + 1
    /\ ret' = [fn |-> fn, arg |-> arg, io |-> io, kind |-> out.kind, val |-> out.val,
               err |-> out.err, dest |-> out.dest, locals |-> out.locals,
               built |-> out.built, spawned |-> out.spawned]

\* PreArgs::parse_with_env(var_name), the result kept by the host.
Parsed(var_name) ==
    LET p == parse_with_env(var_name)
    IN  /\ pre' = Some(p.self)
        /\ ansi_calls' = ansi_calls + p.ansi
        /\ ret' = [BlankReturn EXCEPT !.fn = "PreArgs::parse_with_env",
                                      !.arg = Some(var_name),
                                      !.kind = "Ok",
                                      !.val = Some(p.self)]

----------------------------------------------------------------------------
\* The host of the crate's example (lib.rs 27-41).

Init == Start("parse_pre")

\* line 28, first half: PreArgs::parse() (or parse_with_env with the host's name)
MainPreArgsParse ==
    /\ pc = "parse_pre"
    /\ \E name \in FilterVars : Parsed(name)
    /\ pc' = "setup_pre"
    /\ UNCHANGED <<environ, stderr_tty, ansi_ok, args, subscriber, installs, workers,
                   spawned, held, calls, chain>>

\* line 28, second half: .setup()? into _guard
MainPreArgsSetup ==
    /\ pc = "setup_pre"
    /\ LET out == PreArgs_setup(pre[1], subscriber, spawned + 1)
       IN  /\ Effect("PreArgs::setup", pre, None, out)
           /\ held' = out.alive
           /\ pc' = IF out.kind = "Ok" THEN "parse_args" ELSE "exit_err"
    /\ UNCHANGED <<environ, stderr_tty, ansi_ok, pre, args, chain>>

\* line 29: Args::parse()
MainArgsParse ==
    /\ pc = "parse_args"
    /\ \E a \in LoggingArgsValues : args' = Some(a)
    /\ pc' = "check_guard"
    /\ UNCHANGED <<environ, stderr_tty, ansi_ok, ansi_calls, pre, subscriber, installs,
                   workers, spawned, held, calls, ret, chain>>

\* lines 30-36: _guard.is_none(), so args.logging.setup(..)? into _guard
MainLoggingSetup ==
    /\ pc = "check_guard"
    /\ held = {}
    /\ \E io \in SetupInputs(args[1]) :
         LET out == LoggingArgs_setup(args[1], subscriber, spawned + 1, io)
         IN  /\ Effect("LoggingArgs::setup", args, Some(io), out)
             /\ held' = out.alive
             /\ pc' = CASE out.kind = "Ok" -> "app"
                        [] out.kind = "Err" -> "exit_err"
                        [] out.kind = "panic" -> "panicked"
    /\ UNCHANGED <<environ, stderr_tty, ansi_ok, pre, args, chain>>

\* line 30: _guard is Some, the flag-driven setup is skipped
MainSkipSetup ==
    /\ pc = "check_guard"
    /\ held # {}
    /\ pc' = "app"
    /\ UNCHANGED <<environ, stderr_tty, ansi_ok, ansi_calls, pre, args, subscriber,
                   installs, workers, spawned, held, calls, ret, chain>>

\* lines 38-41: the application runs, main returns and _guard is dropped
MainReturn ==
    /\ pc = "app"
    /\ pc' = "done"
    /\ workers' = workers \ held
    /\ held' = {}
    /\ UNCHANGED <<environ, stderr_tty, ansi_ok, ansi_calls, pre, args, subscriber,
                   installs, spawned, calls, ret, chain>>

Next ==
    \/ MainPreArgsParse
    \/ MainPreArgsSetup
    \/ MainArgsParse
    \/ MainLoggingSetup
    \/ MainSkipSetup
    \/ MainReturn

Spec == Init /\ [][Next]_vars

----------------------------------------------------------------------------
\* A host that only uses the flags (lib.rs 100-124): Args::parse(), then
\* LoggingArgs::setup(). It reads no filter variable; they are left unset.

InitFlags ==
    /\ Start("flags_parse")
    /\ \A v \in FilterVars : environ[v] = None

FlagsArgsParse ==
    /\ pc = "flags_parse"
    /\ \E a \in LoggingArgsValues : args' = Some(a)
    /\ pc' = "flags_setup"
    /\ UNCHANGED <<environ, stderr_tty, ansi_ok, ansi_calls, pre, subscriber, installs,
                   workers, spawned, held, calls, ret, chain>>

FlagsLoggingSetup ==
    /\ pc = "flags_setup"
    /\ \E io \in SetupInputs(args[1]) :
         LET out == LoggingArgs_setup(args[1], subscriber, spawned + 1, io)
         IN  /\ Effect("LoggingArgs::setup", args, Some(io), out)
             /\ held' = out.alive
             /\ pc' = CASE out.kind = "Ok" -> "app"
                        [] out.kind = "Err" -> "exit_err"
                        [] out.kind = "panic" -> "panicked"
    /\ UNCHANGED <<environ, stderr_tty, ansi_ok, pre, args, chain>>

NextFlags ==
    \/ FlagsArgsParse
    \/ FlagsLoggingSetup

SpecFlags == InitFlags /\ [][NextFlags]_vars

----------------------------------------------------------------------------
\* A host that does not follow the documented order: it parses the
\* environment and the flags once, then calls the two setup functions in any
\* order, up to MaxCalls times, going on after an Err. A panic ends it.
\* The environment variables that neither decide the logline nor the one-shot
\* installation are left unset here.

InitCalls ==
    /\ Start("host")
    /\ \A v \in EnvVars \ {"RUST_LOG", "DEBUG_INVOCATION", "NO_COLOR"} : environ[v] = None
    /\ stderr_tty
    /\ ansi_ok

HostPreArgsParse ==
    /\ pc = "host"
    /\ pre = None
    /\ Parsed("RUST_LOG")
    /\ pc' = pc
    /\ UNCHANGED <<environ, stderr_tty, ansi_ok, args, subscriber, installs, workers,
                   spawned, held, calls, chain>>

HostArgsParse ==
    /\ pc = "host"
    /\ args = None
    /\ \E a \in LoggingArgsValues : args' = Some(a)
    /\ UNCHANGED <<environ, stderr_tty, ansi_ok, ansi_calls, pc, pre, subscriber,
                   installs, workers, spawned, held, calls, ret, chain>>

HostPreArgsSetup ==
    /\ pc = "host"
    /\ pre # None
    /\ calls < MaxCalls
    /\ LET out == PreArgs_setup(pre[1], subscriber, spawned + 1)
       IN  /\ Effect("PreArgs::setup", pre, None, out)
           /\ held' = held \cup out.alive
           /\ pc' = pc
    /\ UNCHANGED <<environ, stderr_tty, ansi_ok, pre, args, chain>>

HostLoggingSetup ==
    /\ pc = "host"
    /\ args # None
    /\ calls < MaxCalls
    /\ \E io \in SetupInputs(args[1]) :
         LET out == LoggingArgs_setup(args[1], subscriber, spawned + 1, io)
         IN  /\ Effect("LoggingArgs::setup", args, Some(io), out)
             /\ held' = held \cup out.alive
             /\ pc' = IF out.kind = "panic" THEN "panicked" ELSE pc
    /\ UNCHANGED <<environ, stderr_tty, ansi_ok, pre, args, chain>>

NextCalls ==
    \/ HostPreArgsParse
    \/ HostArgsParse
    \/ HostPreArgsSetup
    \/ HostLoggingSetup

SpecCalls == InitCalls /\ [][NextCalls]_vars

----------------------------------------------------------------------------
\* ColourMode::or_if_auto applied over and over to one value.

InitColour ==
    /\ Start("colour")
    /\ \A v \in EnvVars : environ[v] = None
    /\ stderr_tty
    /\ ansi_ok

\* a ColourMode value comes into being (flag, default or from_env)
ColourNew ==
    /\ pc = "colour"
    /\ chain = <<>>
    /\ \E m \in ColourMode : chain' = <<[value |-> m, out |-> m]>>
    /\ UNCHANGED <<environ, stderr_tty, ansi_ok, ansi_calls, pc, pre, args, subscriber,
                   installs, workers, spawned, held, calls, ret>>

\* current.or_if_auto(value)
ColourOrIfAuto ==
    /\ pc = "colour"
    /\ chain # <<>>
    /\ Len(chain) <= MaxChain
    /\ \E m \in ColourMode :
         chain' = Append(chain, [value |-> m, out |-> or_if_auto(chain[Len(chain)].out, m)])
    /\ UNCHANGED <<environ, stderr_tty, ansi_ok, ansi_calls, pc, pre, args, subscriber,
                   installs, workers, spawned, held, calls, ret>>

NextColour ==
    \/ ColourNew
    \/ ColourOrIfAuto

SpecColour == InitColour /\ [][NextColour]_vars

----------------------------------------------------------------------------
\* Properties. The environment as the properties read it.

Set(name) == environ[name] # None

\* The colour mode the environment asks for, by priority.
EnvMode ==
    IF Set("NO_COLOR") THEN "Never"
    ELSE IF Set("CLICOLOR_FORCE") THEN "Always"
    ELSE IF ~ansi_ok THEN "Never"
    ELSE "Auto"

Supervised == (Set("JOURNAL_STREAM") /\ ~stderr_tty) \/ Set("DEBUG_INVOCATION")

AfterParse == ret.fn = "PreArgs::parse_with_env"
AfterPreSetup == ret.fn = "PreArgs::setup"
AfterLoggingSetup == ret.fn = "LoggingArgs::setup"

Finished == pc \in {"app", "done", "exit_err", "panicked"}

\* C1: in the documented startup sequence exactly one resolver attempts the
\* installation and the backend is installed at most once. PreArgs::setup
\* returns Ok(None) and installs nothing iff logline is absent; it installs
\* and returns the guard iff logline is present; LoggingArgs::setup is called
\* only in the former case and finds nothing installed. No state holds two
\* installations or two live guards.
C1_OneResolverOneInstallation ==
    /\ installs <= 1
    /\ spawned <= 1
    /\ Cardinality(workers) <= 1
    /\ Cardinality(held) <= 1
    /\ (AfterPreSetup =>
          /\ (pre[1].logline = None <=>
                (ret.kind = "Ok" /\ ret.val = None /\ installs = 0 /\ subscriber = None
                 /\ workers = {}))
          /\ (pre[1].logline # None <=>
                (ret.kind = "Ok" /\ ret.val # None /\ installs = 1 /\ subscriber = ret.built
                 /\ ret.built # None /\ calls = 1
                 /\ (pc # "done" => workers = {ret.val[1]} /\ held = workers))))
    /\ (AfterLoggingSetup =>
          /\ pre[1].logline = None
          /\ calls = 2
          /\ installs = (IF ret.kind = "Ok" THEN 1 ELSE 0)
          /\ (pc # "done" => workers = (IF ret.kind = "Ok" THEN {ret.val[1]} ELSE {})))
    /\ (Finished => (pre[1].logline # None) # AfterLoggingSetup)
    /\ (Finished /\ pre[1].logline # None => calls = 1 /\ installs = 1)

C1_Witness ==
    /\ pc = "done"
    /\ AfterLoggingSetup
    /\ pre[1].logline = None
    /\ installs = 1
    /\ spawned = 1

\* C2 as claimed: a PreArgs::setup call with a logline, or any
\* LoggingArgs::setup call, made while a subscriber is installed returns an
\* InitializationError and leaves the installed subscriber in place.
C2_AsClaimed ==
    [][(calls' # calls /\ subscriber # None
        /\ (ret'.fn = "PreArgs::setup" => ret'.arg[1].logline # None))
       => (/\ ret'.kind = "Err"
           /\ ret'.err = Some("InitializationError")
           /\ subscriber' = subscriber)]_vars

\* C2: while a subscriber is installed, a PreArgs::setup call with a logline
\* returns an InitializationError; a LoggingArgs::setup call never returns
\* Ok: it returns the path error when the log file path cannot be split and
\* panics otherwise. In every case the installed subscriber stays unchanged.
C2_ReinstallRejected ==
    [][(calls' # calls /\ subscriber # None)
       => (/\ subscriber' = subscriber
           /\ installs' = installs
           /\ (ret'.fn = "PreArgs::setup" /\ ret'.arg[1].logline # None
                 => ret'.kind = "Err" /\ ret'.err = Some("InitializationError"))
           /\ (ret'.fn = "LoggingArgs::setup"
                 => /\ ret'.kind # "Ok"
                    /\ (ret'.kind = "Err"
                          => /\ ret'.err = Some("Failed to determine log file name")
                             /\ ret'.dest = None)
                    /\ (ret'.built # None => ret'.kind = "panic")))]_vars

C2_Witness ==
    /\ AfterPreSetup
    /\ ret.arg[1].logline # None
    /\ ret.kind = "Err"
    /\ ret.err = Some("InitializationError")
    /\ subscriber # None
    /\ calls = 2

\* A setup call installed a fully configured session and returned its guard.
InstalledAndGuarded ==
    /\ ret'.kind = "Ok"
    /\ ret'.val # None
    /\ ret'.built # None
    /\ subscriber = None
    /\ subscriber' = ret'.built
    /\ installs' = installs + 1
    /\ ret'.val[1] \notin workers
    /\ workers' = workers \cup {ret'.val[1]}

\* A setup call left the installed state and the live workers as they were.
NothingInstalled ==
    /\ subscriber' = subscriber
    /\ installs' = installs
    /\ workers' = workers

\* The path error comes before any writer, worker or installation attempt.
PathErrorFirst ==
    ret'.err = Some("Failed to determine log file name")
      => /\ ret'.dest = None
         /\ ret'.built = None
         /\ ret'.spawned = 0
         /\ spawned' = spawned
         /\ ansi_calls' = ansi_calls

\* C3 as claimed: every setup call ends either with a session installed and
\* its guard returned, or with an error returned and nothing installed.
C3_AsClaimed ==
    [][calls' # calls
       => (/\ (InstalledAndGuarded \/ (ret'.kind = "Err" /\ NothingInstalled))
           /\ PathErrorFirst)]_vars

\* C3: every setup call ends in one of four ways: a session installed and
\* its guard returned; an error returned; Ok(None) from PreArgs::setup when
\* logline is absent; a panic of LoggingArgs::setup. In the last three this
\* call installs nothing and no worker it spawned stays alive. The path
\* error comes before any writer or installation attempt.
C3_NoPartialSuccess ==
    [][calls' # calls
       => (/\ \/ InstalledAndGuarded
              \/ (ret'.kind = "Err" /\ NothingInstalled)
              \/ (/\ ret'.fn = "PreArgs::setup"
                  /\ ret'.arg[1].logline = None
                  /\ ret'.kind = "Ok"
                  /\ ret'.val = None
                  /\ spawned' = spawned
                  /\ NothingInstalled)
              \/ (/\ ret'.fn = "LoggingArgs::setup"
                  /\ ret'.kind = "panic"
                  /\ NothingInstalled)
           /\ PathErrorFirst)]_vars

C3_Witness ==
    /\ AfterPreSetup
    /\ ret.kind = "Err"
    /\ ret.spawned = 1
    /\ spawned = 2
    /\ installs = 1
    /\ Cardinality(workers) = 1

\* C4 as claimed: the effective colour is the environment's mode when the
\* --color flag is Auto, and the flag's value when the flag is explicit.
C4_AsClaimed ==
    AfterLoggingSetup /\ ret.locals # None
      => /\ (ret.arg[1].color = "Auto" => ret.locals[1].color = EnvMode)
         /\ (ret.arg[1].color # "Auto" => ret.locals[1].color = ret.arg[1].color)

\* C4: the effective colour is from_env().or_if_auto(flag): the environment's
\* mode whenever that mode is not Auto, whatever the flag says, and the
\* flag's value only when the environment's mode is Auto.
C4_EnvironmentFirst ==
    AfterLoggingSetup /\ ret.locals # None
      => /\ (EnvMode # "Auto" => ret.locals[1].color = EnvMode)
         /\ (EnvMode = "Auto" => ret.locals[1].color = ret.arg[1].color)
         /\ (ret.arg[1].color = "Auto" => ret.locals[1].color = EnvMode)
         /\ ret.built[1].ansi = (\/ ret.locals[1].color = "Always"
                                 \/ ret.locals[1].color = "Auto" /\ stderr_tty)

C4_Witness ==
    /\ AfterLoggingSetup
    /\ ret.kind = "Ok"
    /\ Set("NO_COLOR")
    /\ ret.arg[1].color = "Always"
    /\ ret.locals[1].color = "Never"
    /\ ~subscriber[1].ansi

\* C5: from_env follows a strict priority: NO_COLOR set gives Never whatever
\* CLICOLOR_FORCE is; else CLICOLOR_FORCE set gives Always; else a failed
\* ANSI enablement gives Never; else Auto. ANSI enablement is attempted only
\* when both variables are unset.
C5_FromEnvPriority ==
    AfterParse
      => /\ (Set("NO_COLOR") => ret.val[1].color = "Never")
         /\ (~Set("NO_COLOR") /\ Set("CLICOLOR_FORCE") => ret.val[1].color = "Always")
         /\ (~Set("NO_COLOR") /\ ~Set("CLICOLOR_FORCE") /\ ~ansi_ok
               => ret.val[1].color = "Never")
         /\ (~Set("NO_COLOR") /\ ~Set("CLICOLOR_FORCE") /\ ansi_ok
               => ret.val[1].color = "Auto")
         /\ ansi_calls = (IF ~Set("NO_COLOR") /\ ~Set("CLICOLOR_FORCE") THEN 1 ELSE 0)

C5_Witness ==
    /\ AfterParse
    /\ Set("NO_COLOR")
    /\ Set("CLICOLOR_FORCE")
    /\ ret.val[1].color = "Never"
    /\ ansi_calls = 0

\* C6: parse_with_env(name) gives logline the value of the named variable
\* when it is set, whatever DEBUG_INVOCATION is; else "debug" when
\* DEBUG_INVOCATION is set; else none. No other variable decides whether
\* logline is present.
C6_LoglineResolution ==
    AfterParse
      => LET name == ret.arg[1]
             logline == ret.val[1].logline
         IN  /\ (Set(name) => logline = environ[name])
             /\ (~Set(name) /\ Set("DEBUG_INVOCATION") => logline = Some("debug"))
             /\ (~Set(name) /\ ~Set("DEBUG_INVOCATION") => logline = None)
             /\ ((logline # None) <=> (Set(name) \/ Set("DEBUG_INVOCATION")))

C6_Witness ==
    /\ AfterParse
    /\ ret.arg = Some("APP_LOG")
    /\ Set("APP_LOG")
    /\ Set("DEBUG_INVOCATION")
    /\ ~Set("RUST_LOG")
    /\ ret.val[1].logline = Some("info")

\* C7: PreArgs timeless is true iff JOURNAL_STREAM is present and the error
\* stream is not a terminal, or DEBUG_INVOCATION is present, or LOG_TIMELESS
\* is present.
C7_TimelessDerivation ==
    AfterParse
      => (ret.val[1].timeless <=>
            \/ (Set("JOURNAL_STREAM") /\ ~stderr_tty)
            \/ Set("DEBUG_INVOCATION")
            \/ Set("LOG_TIMELESS"))

C7_Witness ==
    /\ AfterParse
    /\ Set("JOURNAL_STREAM")
    /\ stderr_tty
    /\ ~Set("DEBUG_INVOCATION")
    /\ ~Set("LOG_TIMELESS")
    /\ ~ret.val[1].timeless

\* The path has both a parent and a file name: it is not empty and its last
\* component is a normal one.
HasParentAndName(p) == p # <<>> /\ p[Len(p)] \notin {"/", ".", ".."}

\* C8: destination resolution is a total case split on log_file: absent
\* gives the error stream; an existing directory gives that directory and
\* the generated name progname.timestamp.log; a non-directory with a parent
\* and a file name gives exactly that parent and name; a non-directory
\* lacking either gives the path error. The directory check comes first, so
\* an existing directory never gives the path error.
C8_DestinationResolution ==
    AfterLoggingSetup
      => LET f == ret.arg[1].log_file
             io == ret.io[1]
             progname == IF io.exe_stem = None THEN "lloggs" ELSE io.exe_stem[1]
             PathError == /\ ret.kind = "Err"
                          /\ ret.err = Some("Failed to determine log file name")
                          /\ ret.dest = None
         IN  /\ (f = None
                   => ~PathError
                      /\ ret.dest = Some([kind |-> "stderr", dir |-> <<>>,
                                          filename |-> <<>>]))
             /\ (f # None /\ io.is_dir
                   => ~PathError
                      /\ ret.dest = Some([kind |-> "file", dir |-> f[1],
                                          filename |-> <<progname, ".", io.now, ".log">>]))
             /\ (f # None /\ ~io.is_dir /\ HasParentAndName(f[1])
                   => ~PathError
                      /\ ret.dest = Some([kind |-> "file",
                                          dir |-> SubSeq(f[1], 1, Len(f[1]) - 1),
                                          filename |-> <<f[1][Len(f[1])]>>]))
             /\ (f # None /\ ~io.is_dir /\ ~HasParentAndName(f[1]) => PathError)
             /\ (f = Some(<<"a", "b.log">>) /\ ~io.is_dir
                   => ret.dest = Some([kind |-> "file", dir |-> <<"a">>,
                                       filename |-> <<"b.log">>]))
             /\ (ret.kind = "Ok" => subscriber[1].writer = ret.dest[1])

C8_Witness ==
    /\ AfterLoggingSetup
    /\ ret.arg[1].log_file = Some(<<"a", "..">>)
    /\ ret.io[1].is_dir
    /\ ret.kind = "Ok"
    /\ subscriber[1].writer.dir = <<"a", "..">>

\* C9: a file destination gives JSON whatever log_timeless, the supervisor
\* detection and the verbosity are; with no file the output is
\* human-readable without timestamps iff a supervisor is detected or
\* --log-timeless is given, and with timestamps otherwise.
C9_EncodingSelection ==
    AfterLoggingSetup /\ ret.built # None
      => LET a == ret.arg[1]
         IN  /\ (a.log_file # None => ret.built[1].format = "json")
             /\ (a.log_file = None /\ (Supervised \/ a.log_timeless)
                   => ret.built[1].format = "without_time")
             /\ (a.log_file = None /\ ~Supervised /\ ~a.log_timeless
                   => ret.built[1].format = "full")
             /\ (ret.kind = "Ok" => subscriber = ret.built)

C9_Witness ==
    /\ AfterLoggingSetup
    /\ ret.kind = "Ok"
    /\ ret.arg[1].log_file # None
    /\ ret.arg[1].log_timeless
    /\ Set("DEBUG_INVOCATION")
    /\ subscriber[1].format = "json"

\* C10: or_if_auto treats Auto as the only overridable slot: Auto overridden
\* by m is m, a non-Auto mode overridden by anything is itself; applying the
\* same override twice changes nothing more; a mode once Always or Never is
\* never reversed by a later override.
C10_AutoOnlyOverridable ==
    \A i \in 2..Len(chain) :
        LET self == chain[i - 1].out
            m == chain[i].value
            out == chain[i].out
        IN  /\ (self = "Auto" => out = m)
            /\ (self # "Auto" => out = self)
            /\ (chain[i - 1].value = m /\ i > 2 => out = self)
            /\ \A j \in 1..i : chain[j].out # "Auto" => out = chain[j].out

C10_Witness ==
    /\ Len(chain) = 3
    /\ chain[1].out = "Auto"
    /\ chain[2].value = "Never"
    /\ chain[2].out = "Never"
    /\ chain[3].value = "Always"
    /\ chain[3].out = "Never"

====
